---- MODULE Spec2Model ----
(***************************************************************************)
(* Proactive flood alerts (src/ai/proactive_alerts.py):                    *)
(*   RainfallThresholdMonitor  - bucket classification, crossing detection *)
(*   ProactiveAlertManager     - cooldown gate, alert generation, queries  *)
(* Rainfall values are integers (the code compares floats against 30, 50   *)
(* and 80 only); time is in whole seconds.                                 *)
(* Audio narration (src/ai/audio_narrator.py):                             *)
(*   AudioNarrator             - priority queue of utterances, the playback *)
(*                               worker, start/stop, speak, statistics     *)
(***************************************************************************)
EXTENDS Integers, Sequences, FiniteSets, TLC

\* ------------------------------------------------------------------ bounds
MaxTime == 41

\* Qualifying events recorded (the record stops growing at this length).
MaxEvents == 2

\* Seconds the clock may advance in one step.
TickSteps == {10, 31}

\* Rainfall readings fed to the monitor: both sides of every threshold.
RainValues == {0, 10, 25, 29, 30, 35, 49, 50, 55, 60, 79, 80, 85, 100}

\* Rainfall readings passed to update_conditions.
TickValues == {10, 25, 35, 55, 60, 85}

\* "" is the location a fresh manager holds.
Locations == {"", "Zone A", "Zone B"}

Threads == {"t1", "t2"}

\* Values of `limit` passed to get_alert_history.
Limits == {0, 1, 2}

\* Items ever put into the narrator's queue when the queue is used on its own.
MaxItems == 4

\* speak() calls that enqueue, when the narrator runs with its threads.
MaxSpeak == 2

\* Priorities given to the queue on its own (0 = critical .. 3 = low).
Priorities == {0, 2, 3}

\* Priorities passed to speak().
SpeakPriorities == {0, 2}

\* Utterance texts, as sequences of characters.
Whitespace == {" "}
Texts == {<<>>, <<" ">>, <<"a">>, <<" ", "a">>}

\* TTSBackend values: no audio, or some engine.
Backends == {"none", "pyttsx3"}

\* Threads that call into the narrator, and playback threads start() can spawn.
Callers == {"c1", "c2"}
Workers == {"w1", "w2"}

\* ------------------------------------------------- configuration (__init__)
cooldown_seconds == 60
min_alert_interval == 30

\* ------------------------------------------------------------ Optional[T]
None == <<>>
Some(x) == <<x>>
Val(o) == o[1]

AlertTypes == {"threshold_crossing", "escalation", "location_change", "severe_weather"}

VARIABLES
    now,               \* datetime.now() / time.time(), seconds
    monitor,           \* RainfallThresholdMonitor: _last_rainfall, _last_bucket
    last_call,         \* the last check_crossing call: state before, argument, result
    ai_available,      \* _alert_generator is set and is_available()
    current_rainfall,  \* _current_rainfall
    current_location,  \* _current_location
    last_location,     \* _last_location
    last_alert_time,   \* _last_alert_time
    cooldowns,         \* _cooldowns: dict AlertType -> time
    alerts,            \* _alerts (pending list)
    alert_history,     \* _alert_history
    notified,          \* alerts handed to the subscriber callbacks, in order
    lock,              \* _lock: None or Some(holder)
    pc,                \* per thread: where it is in its call
    frame,             \* per thread: the call's arguments and locals
    qualifying,        \* history: the updates that found a location change or a crossing
    scenario,          \* history: how far the calls so far follow ScenarioFeed at "Zone A"
    backend,           \* AudioNarrator.backend
    _queue,            \* _queue: the heap list of the PriorityQueue
    _running,          \* _running
    _stop_event,       \* _stop_event is set
    _current_playback, \* _current_playback
    _stats,            \* _stats: queued, played, interrupted, errors
    interrupted,       \* alert ids handed to on_interrupt, in order
    interrupt_due,     \* history: ids of speak(interrupt=True) calls made during a render
    wpc,               \* per playback thread: where it is in _playback_loop
    wframe,            \* per playback thread: the item in hand and what was done with it
    cpc,               \* per caller: where it is in its narrator call
    cframe,            \* per caller: the call's arguments
    speak_due,         \* history: speak() calls made with a text and a backend
    drained,           \* history: items removed by stop() and clear_queue()
    held,              \* history: ids put while stopped, no stop/clear_queue since
    put_log,           \* history: every item put, in enqueue order
    get_log            \* history: every item the worker dequeued, in dequeue order

vars == <<now, monitor, last_call, ai_available, current_rainfall, current_location,
          last_location, last_alert_time, cooldowns, alerts, alert_history,
          notified, lock, pc, frame, qualifying, scenario,
          backend, _queue, _running, _stop_event, _current_playback, _stats,
          interrupted, interrupt_due, wpc, wframe, cpc, cframe, speak_due,
          drained, held, put_log, get_log>>

nar_vars == <<backend, _queue, _running, _stop_event, _current_playback, _stats,
              interrupted, interrupt_due, wpc, wframe, cpc, cframe, speak_due,
              drained, held, put_log, get_log>>

mgr_vars == <<ai_available, current_rainfall, current_location, last_location,
              last_alert_time, cooldowns, alerts, alert_history, notified,
              lock, pc, frame, qualifying, scenario>>

\* ------------------------------------------------ RainfallThresholdMonitor
NewMonitor == [last_rainfall |-> None, last_bucket |-> None]

get_bucket(rainfall) ==
    IF rainfall < 30 THEN "normal"
    ELSE IF rainfall < 80 THEN "warning"
    ELSE "danger"

\* Mutant of Direction: the comparison inverted.
Direction_inverted(rainfall, last) == IF rainfall < last THEN "rising" ELSE "falling"

\* check_crossing: direction of a bucket change
Direction(rainfall, last) == IF rainfall > last THEN "rising" ELSE "falling"

\* Mutant of CrossedThreshold: the lower threshold whenever warning is entered.
CrossedThreshold_lower(direction, current_bucket) ==
    IF current_bucket = "danger" THEN Some(80) ELSE Some(30)

\* check_crossing: the threshold a bucket change is said to have crossed
CrossedThreshold(direction, current_bucket) ==
    IF direction = "rising"
    THEN IF current_bucket = "warning" THEN Some(30)
         ELSE IF current_bucket = "danger" THEN Some(80)
         ELSE None
    ELSE IF current_bucket = "warning" THEN Some(80)
         ELSE IF current_bucket = "normal" THEN Some(30)
         ELSE None

\* Mutant of IsEscalation: the previous reading is not looked at.
IsEscalation_any_previous(last, rainfall) == rainfall >= 50

\* check_crossing: prev_below_50 and curr_above_50
IsEscalation(last, rainfall) == last < 50 /\ rainfall >= 50

\* check_crossing(rainfall) on monitor state m: the new state and the returned value
\* (None, or Some(event dict)).
check_crossing(m, rainfall) ==
    IF m.last_rainfall = None
    THEN [mon |-> [last_rainfall |-> Some(rainfall),
                   last_bucket |-> Some(get_bucket(rainfall))],
          result |-> None]
    ELSE LET last == Val(m.last_rainfall)
             current_bucket == get_bucket(rainfall)
         IN IF Some(current_bucket) # m.last_bucket
            THEN LET direction == Direction(rainfall, last)
                 IN [mon |-> [last_rainfall |-> Some(rainfall),
                              last_bucket |-> Some(current_bucket)],
                     result |-> Some([type |-> "bucket_change",
                                      from_bucket |-> Val(m.last_bucket),
                                      to_bucket |-> current_bucket,
                                      from_rainfall |-> last,
                                      to_rainfall |-> rainfall,
                                      direction |-> direction,
                                      threshold_crossed |->
                                          CrossedThreshold(direction, current_bucket)])]
            ELSE IF current_bucket = "warning" /\ IsEscalation(last, rainfall)
            THEN [mon |-> [m EXCEPT !.last_rainfall = Some(rainfall)],
                  result |-> Some([type |-> "internal_escalation",
                                   bucket |-> "warning",
                                   from_rainfall |-> last,
                                   to_rainfall |-> rainfall,
                                   threshold_crossed |-> Some(50),
                                   direction |-> "rising"])]
            ELSE [mon |-> [m EXCEPT !.last_rainfall = Some(rainfall)],
                  result |-> None]

\* ---------------------------------------------------- ProactiveAlertManager
\* _can_alert(alert_type), evaluated at clock value `now`
_can_alert(alert_type) ==
    IF last_alert_time # None /\ now - Val(last_alert_time) < min_alert_interval
    THEN FALSE
    ELSE IF alert_type \in DOMAIN cooldowns
            /\ now - cooldowns[alert_type] < cooldown_seconds
    THEN FALSE
    ELSE TRUE

\* Mutant of AlertTypeFor: a bucket change into danger is not told apart.
AlertTypeFor_no_danger(crossing) ==
    IF crossing.type = "bucket_change" THEN "threshold_crossing" ELSE "escalation"

\* update_conditions: the alert type chosen for a crossing event
AlertTypeFor(crossing) ==
    IF crossing.type = "bucket_change"
    THEN IF crossing.to_bucket = "danger" THEN "severe_weather"
         ELSE "threshold_crossing"
    ELSE "escalation"

\* _get_priority(alert_type, bucket): the legacy path
_get_priority(alert_type, bucket) ==
    IF bucket = "danger" THEN "critical"
    ELSE IF alert_type = "threshold_crossing" /\ bucket = "warning" THEN "high"
    ELSE IF alert_type = "escalation" THEN "medium"
    ELSE IF alert_type = "severe_weather" THEN "critical"
    ELSE "low"

\* _generate_ai_alert: severity_map by bucket, adjusted by alert type, mapped back
\* to a priority of the same name
AiPriority(alert_type, bucket) ==
    LET by_bucket == IF bucket = "normal" THEN "low"
                     ELSE IF bucket = "warning" THEN "medium"
                     ELSE "critical"
    IN IF alert_type = "severe_weather" THEN "critical"
       ELSE IF alert_type = "threshold_crossing" /\ bucket = "danger" THEN "critical"
       ELSE IF alert_type = "escalation" THEN "medium"
       ELSE by_bucket

\* The ProactiveAlert both generation paths construct.
MakeAlert(alert_type, priority) ==
    [id |-> <<alert_type, now>>,
     priority |-> priority,
     alert_type |-> alert_type,
     location |-> current_location,
     rainfall |-> current_rainfall,
     created_at |-> now,
     spoken |-> FALSE,
     read |-> FALSE]

\* The readings of the end-to-end scenario, fed in this order at "Zone A".
ScenarioFeed == <<10, 35, 55, 85, 60, 25>>

\* `with self._lock`: threading.Lock is not reentrant, so the lock is taken only
\* when nobody holds it, the caller included.
CanAcquire(t) == lock = None

IdleFrame == [op |-> "none", returned |-> None]

\* No check_crossing call made yet.
NoCall == [made |-> FALSE, before |-> NewMonitor, value |-> 0, result |-> None]

\* The record of a check_crossing call on monitor state m.
CallOf(m, rainfall) ==
    [made |-> TRUE, before |-> m, value |-> rainfall,
     result |-> check_crossing(m, rainfall).result]

\* ------------------------------------------------------ AudioNarrator.__init__
\* A playback thread that does not exist (never started, or returned).
NoWorker == [item |-> None, ok |-> TRUE, trace |-> <<>>]

\* A caller that is in no narrator call.
IdleCall == [op |-> "none"]

\* The narrator after construction with the given backend.
NewNarrator(b) ==
    /\ backend = b
    /\ _queue = <<>>
    /\ _running = FALSE
    /\ _stop_event = FALSE
    /\ _current_playback = None
    /\ _stats = [queued |-> 0, played |-> 0, interrupted |-> 0, errors |-> 0]
    /\ interrupted = <<>>
    /\ interrupt_due = <<>>
    /\ wpc = [w \in Workers |-> "none"]
    /\ wframe = [w \in Workers |-> NoWorker]
    /\ cpc = [c \in Callers |-> "idle"]
    /\ cframe = [c \in Callers |-> IdleCall]
    /\ speak_due = 0
    /\ drained = 0
    /\ held = {}
    /\ put_log = <<>>
    /\ get_log = <<>>

\* The manager after construction.
InitManager ==
    /\ now = 0
    /\ monitor = NewMonitor
    /\ last_call = NoCall
    /\ ai_available \in BOOLEAN
    /\ current_rainfall = 0
    /\ current_location = ""
    /\ last_location = ""
    /\ last_alert_time = None
    /\ cooldowns = [k \in {} |-> 0]
    /\ alerts = <<>>
    /\ alert_history = <<>>
    /\ notified = <<>>
    /\ lock = None
    /\ pc = [t \in Threads |-> "idle"]
    /\ frame = [t \in Threads |-> IdleFrame]
    /\ qualifying = <<>>
    /\ scenario = [n |-> 0, ok |-> TRUE]

Init == InitManager /\ NewNarrator("pyttsx3")

\* The clock advances.
Tick(d) ==
    /\ now + d <= MaxTime
    /\ now' = now + d
    /\ UNCHANGED <<monitor, last_call>>
    /\ UNCHANGED mgr_vars
    /\ UNCHANGED nar_vars

\* ------------------------------------------------------------- update_conditions
\* A thread calls update_conditions(rainfall, location) and reaches `with self._lock`.
Call_update_conditions(t, rainfall, location) ==
    /\ pc[t] = "idle"
    /\ pc' = [pc EXCEPT ![t] = "uc_lock"]
    /\ frame' = [frame EXCEPT ![t] = [op |-> "update_conditions",
                                      rainfall |-> rainfall,
                                      location |-> location]]
    /\ UNCHANGED <<now, monitor, last_call, ai_available, current_rainfall,
                   current_location, last_location, last_alert_time, cooldowns,
                   alerts, alert_history, notified, lock, qualifying, scenario>>
    /\ UNCHANGED nar_vars

\* The body of update_conditions under the lock, up to `return None` (the lock is
\* released) or to the call of _generate_alert (the lock stays held).
update_conditions(t) ==
    /\ pc[t] = "uc_lock"
    /\ CanAcquire(t)
    /\ LET f == frame[t]
           changed == f.location # current_location
           loc_alert == changed /\ _can_alert("location_change")
           mon0 == IF changed THEN NewMonitor ELSE monitor
           cc == check_crossing(mon0, f.rainfall)
           crossing == IF loc_alert THEN None ELSE cc.result
           alert_type == IF loc_alert THEN "location_change"
                         ELSE AlertTypeFor(Val(crossing))
           fires == loc_alert \/ (crossing # None /\ _can_alert(alert_type))
       IN /\ current_rainfall' = f.rainfall
          /\ current_location' = f.location
          /\ last_location' = IF changed THEN current_location ELSE last_location
          /\ monitor' = IF loc_alert THEN mon0 ELSE cc.mon
          /\ last_call' = IF loc_alert THEN last_call ELSE CallOf(mon0, f.rainfall)
          /\ qualifying' =
                 IF (changed \/ crossing # None) /\ Len(qualifying) < MaxEvents
                 THEN LET kind == IF changed THEN "location_change" ELSE alert_type
                      IN Append(qualifying,
                                [time |-> now,
                                 alert_type |-> kind,
                                 since_last |-> IF last_alert_time = None THEN None
                                                ELSE Some(now - Val(last_alert_time)),
                                 since_kind |-> IF kind \in DOMAIN cooldowns
                                                THEN Some(now - cooldowns[kind])
                                                ELSE None,
                                 passed |-> fires])
                 ELSE qualifying
          /\ scenario' =
                 IF /\ scenario.ok
                    /\ scenario.n < Len(ScenarioFeed)
                    /\ f.location = "Zone A"
                    /\ f.rainfall = ScenarioFeed[scenario.n + 1]
                 THEN [scenario EXCEPT !.n = scenario.n + 1]
                 ELSE [n |-> 0, ok |-> FALSE]
          /\ IF fires
             THEN /\ lock' = Some(t)
                  /\ pc' = [pc EXCEPT ![t] = "generate"]
                  /\ frame' = [frame EXCEPT ![t] =
                          [op |-> "update_conditions",
                           rainfall |-> f.rainfall,
                           location |-> f.location,
                           location_changed |-> changed,
                           alert_type |-> alert_type,
                           crossing_data |-> crossing,
                           gate_time |-> now]]
             ELSE /\ lock' = lock
                  /\ pc' = [pc EXCEPT ![t] = "idle"]
                  /\ frame' = [frame EXCEPT ![t] = IdleFrame]
    /\ UNCHANGED <<now, ai_available, last_alert_time, cooldowns, alerts,
                   alert_history, notified>>
    /\ UNCHANGED nar_vars

\* _generate_alert -> _generate_ai_alert / _generate_legacy_alert: the alert is
\* constructed, then `with self._lock` is reached while update_conditions still
\* holds the lock. Were the lock free, the alert would be stored, the cooldown
\* timestamps set, the subscribers notified and the alert returned.
_generate_alert(t) ==
    /\ pc[t] = "generate"
    /\ LET f == frame[t]
           bucket == get_bucket(current_rainfall)
           priority == IF ai_available THEN AiPriority(f.alert_type, bucket)
                       ELSE _get_priority(f.alert_type, bucket)
           alert == MakeAlert(f.alert_type, priority)
       IN IF CanAcquire(t)
          THEN /\ alerts' = Append(alerts, alert)
               /\ alert_history' = Append(alert_history, alert)
               /\ last_alert_time' = Some(now)
               /\ cooldowns' = (f.alert_type :> now) @@ cooldowns
               /\ notified' = Append(notified, alert)
               /\ lock' = None
               /\ pc' = [pc EXCEPT ![t] = "idle"]
               /\ frame' = [frame EXCEPT ![t] = [op |-> "none", returned |-> Some(alert)]]
          ELSE /\ pc' = [pc EXCEPT ![t] = "store_lock"]
               /\ frame' = [frame EXCEPT ![t] = [f EXCEPT !.op = "update_conditions"]
                                                  @@ [alert |-> alert]]
               /\ UNCHANGED <<alerts, alert_history, last_alert_time, cooldowns,
                              notified, lock>>
    /\ UNCHANGED <<now, monitor, last_call, ai_available, current_rainfall,
                   current_location, last_location, qualifying, scenario>>
    /\ UNCHANGED nar_vars

\* ---------------------------------------------------------------- get_next_alert
Call_get_next_alert(t) ==
    /\ pc[t] = "idle"
    /\ pc' = [pc EXCEPT ![t] = "gna_lock"]
    /\ frame' = [frame EXCEPT ![t] = [op |-> "get_next_alert"]]
    /\ UNCHANGED <<now, monitor, last_call, ai_available, current_rainfall,
                   current_location, last_location, last_alert_time, cooldowns,
                   alerts, alert_history, notified, lock, qualifying, scenario>>
    /\ UNCHANGED nar_vars

Unread == {i \in 1..Len(alerts) : ~alerts[i].read}

FirstUnread == CHOOSE i \in Unread : \A j \in Unread : i <= j

get_next_alert(t) ==
    /\ pc[t] = "gna_lock"
    /\ CanAcquire(t)
    /\ IF Unread # {}
       THEN /\ alerts' = [alerts EXCEPT ![FirstUnread].read = TRUE]
            /\ frame' = [frame EXCEPT ![t] =
                    [op |-> "none",
                     returned |-> Some([alerts[FirstUnread] EXCEPT !.read = TRUE])]]
       ELSE /\ alerts' = alerts
            /\ frame' = [frame EXCEPT ![t] = IdleFrame]
    /\ pc' = [pc EXCEPT ![t] = "idle"]
    /\ UNCHANGED <<now, monitor, last_call, ai_available, current_rainfall,
                   current_location, last_location, last_alert_time, cooldowns,
                   alert_history, notified, lock, qualifying, scenario>>
    /\ UNCHANGED nar_vars

\* ------------------------------------------------------------- get_alert_history
\* list[-limit:] as Python slices it: the last `limit` elements, and the whole
\* list when limit is 0 (-0 is 0) or not less than the length.
LastSlice(list, limit) ==
    IF limit = 0 \/ limit >= Len(list) THEN list
    ELSE SubSeq(list, Len(list) - limit + 1, Len(list))

Call_get_alert_history(t, limit) ==
    /\ pc[t] = "idle"
    /\ pc' = [pc EXCEPT ![t] = "gah_lock"]
    /\ frame' = [frame EXCEPT ![t] = [op |-> "get_alert_history", limit |-> limit]]
    /\ UNCHANGED <<now, monitor, last_call, ai_available, current_rainfall,
                   current_location, last_location, last_alert_time, cooldowns,
                   alerts, alert_history, notified, lock, qualifying, scenario>>
    /\ UNCHANGED nar_vars

\* get_alert_history under the lock: `return self._alert_history[-limit:]`
get_alert_history(t) ==
    /\ pc[t] = "gah_lock"
    /\ CanAcquire(t)
    /\ pc' = [pc EXCEPT ![t] = "idle"]
    /\ frame' = [frame EXCEPT ![t] =
            [op |-> "none",
             returned |-> Some(LastSlice(alert_history, frame[t].limit))]]
    /\ UNCHANGED <<now, monitor, last_call, ai_available, current_rainfall,
                   current_location, last_location, last_alert_time, cooldowns,
                   alerts, alert_history, notified, lock, qualifying, scenario>>
    /\ UNCHANGED nar_vars

\* ------------------------------------------------------------------ specifications
Next ==
    \/ \E d \in TickSteps : Tick(d)
    \/ \E t \in Threads, r \in TickValues, l \in Locations :
           Call_update_conditions(t, r, l)
    \/ \E t \in Threads : update_conditions(t)
    \/ \E t \in Threads : _generate_alert(t)
    \/ \E t \in Threads : Call_get_next_alert(t)
    \/ \E t \in Threads : get_next_alert(t)
    \/ \E t \in Threads, limit \in Limits : Call_get_alert_history(t, limit)
    \/ \E t \in Threads : get_alert_history(t)

Spec == Init /\ [][Next]_vars

\* The monitor used on its own: a monitor is constructed and fed readings.
MonitorNew ==
    /\ monitor' = NewMonitor
    /\ last_call' = NoCall
    /\ UNCHANGED now
    /\ UNCHANGED mgr_vars
    /\ UNCHANGED nar_vars

MonitorCheck(rainfall) ==
    /\ monitor' = check_crossing(monitor, rainfall).mon
    /\ last_call' = CallOf(monitor, rainfall)
    /\ UNCHANGED now
    /\ UNCHANGED mgr_vars
    /\ UNCHANGED nar_vars

MonitorNext ==
    \/ MonitorNew
    \/ \E r \in RainValues : MonitorCheck(r)

MonitorSpec == Init /\ [][MonitorNext]_vars

\* ------------------------------------------------ AudioQueueItem, PriorityQueue
\* Mutant of Less: the comparison is turned round.
Less_reversed(a, b) == a.priority > b.priority

\* AudioQueueItem.__lt__ (dataclass(order=True)): priority is the only field
\* compared; timestamp, text, alert_id and interrupt_current are compare=False.
Less(a, b) == a.priority < b.priority

\* heapq._siftdown: the item at pos (0-based) moves towards startpos while it is
\* less than its parent.
RECURSIVE SiftDownFrom(_, _, _, _)
SiftDownFrom(h, startpos, pos, newitem) ==
    IF pos > startpos
    THEN LET parentpos == (pos - 1) \div 2
             parent == h[parentpos + 1]
         IN IF Less(newitem, parent)
            THEN SiftDownFrom([h EXCEPT ![pos + 1] = parent], startpos, parentpos,
                              newitem)
            ELSE [h EXCEPT ![pos + 1] = newitem]
    ELSE [h EXCEPT ![pos + 1] = newitem]

_siftdown(h, startpos, pos) == SiftDownFrom(h, startpos, pos, h[pos + 1])

\* The loop of heapq._siftup: the smaller child moves up until a leaf is reached
\* (the right child is taken unless the left one is less than it).
RECURSIVE BubbleUp(_, _)
BubbleUp(h, pos) ==
    LET endpos == Len(h)
        childpos == 2 * pos + 1
        rightpos == childpos + 1
        chosen == IF rightpos < endpos /\ ~Less(h[childpos + 1], h[rightpos + 1])
                  THEN rightpos ELSE childpos
    IN IF childpos < endpos
       THEN BubbleUp([h EXCEPT ![pos + 1] = h[chosen + 1]], chosen)
       ELSE [heap |-> h, pos |-> pos]

\* heapq._siftup
_siftup(h, pos) ==
    LET newitem == h[pos + 1]
        leaf == BubbleUp(h, pos)
    IN _siftdown([leaf.heap EXCEPT ![leaf.pos + 1] = newitem], pos, leaf.pos)

\* heapq.heappush, as PriorityQueue._put calls it
heappush(h, item) == _siftdown(Append(h, item), 0, Len(h))

\* heapq.heappop, as PriorityQueue._get calls it: the item returned and the heap left
heappop(h) ==
    LET lastelt == h[Len(h)]
        rest == SubSeq(h, 1, Len(h) - 1)
    IN IF rest # <<>>
       THEN [item |-> rest[1], heap |-> _siftup([rest EXCEPT ![1] = lastelt], 0)]
       ELSE [item |-> lastelt, heap |-> <<>>]

\* The least priority value held by a non-empty heap list.
MinPriority(h) ==
    CHOOSE p \in {h[i].priority : i \in 1..Len(h)} :
        \A i \in 1..Len(h) : p <= h[i].priority

\* The AudioQueueItem speak() builds; alert_id stands for the fields that are not
\* compared and numbers the items in enqueue order.
NewItem(priority) == [priority |-> priority, alert_id |-> Len(put_log) + 1]

\* A playback thread is inside the backend's play call for an item other than
\* the one numbered alert_id.
RenderingOther(alert_id) ==
    \E w \in Workers : wpc[w] = "render" /\ Val(wframe[w].item).alert_id # alert_id

\* put_log after an item of this priority was put.
Enqueued(priority) == Append(put_log, [priority |-> priority])

\* get_log after the item was taken from _queue.
Dequeued(item) ==
    Append(get_log, [alert_id |-> item.alert_id,
                     priority |-> item.priority,
                     min |-> MinPriority(_queue),
                     puts |-> Len(put_log),
                     running |-> _running])

\* The queue used on its own: _queue.put(item)
PriorityQueue_put(priority) ==
    /\ Len(put_log) < MaxItems
    /\ _queue' = heappush(_queue, NewItem(priority))
    /\ put_log' = Enqueued(priority)
    /\ UNCHANGED <<backend, _running, _stop_event, _current_playback, _stats,
                   interrupted, interrupt_due, wpc, wframe, cpc, cframe, get_log,
                   speak_due, drained, held>>
    /\ UNCHANGED <<now, monitor, last_call>>
    /\ UNCHANGED mgr_vars

\* The queue used on its own: _queue.get()
PriorityQueue_get ==
    /\ _queue # <<>>
    /\ _queue' = heappop(_queue).heap
    /\ get_log' = Dequeued(heappop(_queue).item)
    /\ UNCHANGED <<backend, _running, _stop_event, _current_playback, _stats,
                   interrupted, interrupt_due, wpc, wframe, cpc, cframe, put_log,
                   speak_due, drained, held>>
    /\ UNCHANGED <<now, monitor, last_call>>
    /\ UNCHANGED mgr_vars

QueueNext ==
    \/ \E p \in Priorities : PriorityQueue_put(p)
    \/ PriorityQueue_get

QueueInit == Init /\ ai_available = FALSE

QueueSpec == QueueInit /\ [][QueueNext]_vars

\* ------------------------------------------------------------- AudioNarrator
\* str.lstrip / str.rstrip / str.strip on a sequence of characters
RECURSIVE lstrip(_)
lstrip(s) == IF s # <<>> /\ Head(s) \in Whitespace THEN lstrip(Tail(s)) ELSE s

RECURSIVE rstrip(_)
rstrip(s) ==
    IF s # <<>> /\ s[Len(s)] \in Whitespace THEN rstrip(SubSeq(s, 1, Len(s) - 1))
    ELSE s

\* Mutant of strip: nothing is removed.
strip_nothing(s) == s

strip(s) == rstrip(lstrip(s))

\* A text that is empty or consists of whitespace only.
IsBlank(text) == \A k \in 1..Len(text) : text[k] \in Whitespace

\* The manager is not touched by the narrator.
ManagerUnchanged == UNCHANGED <<now, monitor, last_call>> /\ UNCHANGED mgr_vars

\* No playback thread exists, _running is false and no drain loop is going on.
FullyStopped ==
    /\ ~_running
    /\ \A w \in Workers : wpc[w] = "none"
    /\ \A c \in Callers : cpc[c] # "drain"

\* Mutant of speak_returns: nothing is queued while the narrator is not running.
speak_returns_stopped(text) ==
    ~_running \/ backend = "none" \/ text = <<>> \/ strip(text) = <<>>

\* speak: `if self.backend == TTSBackend.NONE: return` and
\* `if not text or not text.strip(): return`
speak_returns(text) == backend = "none" \/ text = <<>> \/ strip(text) = <<>>

\* speak(text, priority, alert_id, interrupt), up to and including
\* self._queue.put(item); the alert id is the item's number in enqueue order.
speak(c, text, priority, interrupt) ==
    /\ cpc[c] = "idle"
    /\ IF speak_returns(text)
       THEN UNCHANGED <<_queue, put_log, cpc, cframe>>
       ELSE /\ Len(put_log) < MaxSpeak
            /\ _queue' = heappush(_queue, NewItem(priority))
            /\ put_log' = Enqueued(priority)
            /\ cpc' = [cpc EXCEPT ![c] = "speak_queued"]
            /\ cframe' = [cframe EXCEPT ![c] = [op |-> "speak",
                                                alert_id |-> Len(put_log) + 1,
                                                interrupt |-> interrupt]]
    /\ speak_due' = IF backend # "none" /\ ~IsBlank(text) THEN speak_due + 1
                    ELSE speak_due
    /\ UNCHANGED <<backend, _running, _stop_event, _current_playback, _stats,
                   interrupted, interrupt_due, wpc, wframe, get_log,
                   drained>>
    /\ held' = IF backend # "none" /\ ~IsBlank(text) /\ FullyStopped
               THEN held \cup {Len(put_log) + 1}
               ELSE held
    /\ ManagerUnchanged

\* speak, after the put: `self._stats["queued"] += 1` under _stats_lock, then
\* `if interrupt and self._current_playback:` the on_interrupt callback.
speak_queued(c) ==
    /\ cpc[c] = "speak_queued"
    /\ _stats' = [_stats EXCEPT !.queued = @ + 1]
    /\ interrupted' = IF cframe[c].interrupt /\ _current_playback # None
                      THEN Append(interrupted, cframe[c].alert_id)
                      ELSE interrupted
    /\ interrupt_due' = IF cframe[c].interrupt /\ RenderingOther(cframe[c].alert_id)
                        THEN Append(interrupt_due, cframe[c].alert_id)
                        ELSE interrupt_due
    /\ cpc' = [cpc EXCEPT ![c] = "idle"]
    /\ cframe' = [cframe EXCEPT ![c] = IdleCall]
    /\ UNCHANGED <<backend, _queue, _running, _stop_event, _current_playback,
                   wpc, wframe, put_log, get_log,
                   speak_due, drained, held>>
    /\ ManagerUnchanged

\* start(): `if self._running: return`, `if self.backend == TTSBackend.NONE: return`
start(c) ==
    /\ cpc[c] = "idle"
    /\ cpc' = IF _running \/ backend = "none" THEN cpc
              ELSE [cpc EXCEPT ![c] = "start_thread"]
    /\ cframe' = [cframe EXCEPT ![c] = IdleCall]
    /\ UNCHANGED <<backend, _queue, _running, _stop_event, _current_playback,
                   _stats, interrupted, interrupt_due, wpc, wframe, put_log, get_log,
                   speak_due, drained, held>>
    /\ ManagerUnchanged

\* start(), after the checks: _running = True, _stop_event.clear(), a new
\* playback thread is created and started.
start_thread(c) ==
    /\ cpc[c] = "start_thread"
    /\ \E w \in Workers : wpc[w] = "none"
    /\ LET w == CHOOSE w \in Workers : wpc[w] = "none"
       IN /\ wpc' = [wpc EXCEPT ![w] = "loop"]
          /\ wframe' = [wframe EXCEPT ![w] = NoWorker]
    /\ _running' = TRUE
    /\ _stop_event' = FALSE
    /\ cpc' = [cpc EXCEPT ![c] = "idle"]
    /\ UNCHANGED <<backend, _queue, _current_playback, _stats, interrupted, interrupt_due,
                   cframe, put_log, get_log,
                   speak_due, drained, held>>
    /\ ManagerUnchanged

\* stop(): `if not self._running: return`, then _running = False and
\* _stop_event.set()
stop(c) ==
    /\ cpc[c] = "idle"
    /\ IF ~_running
       THEN UNCHANGED <<_running, _stop_event, cpc>>
       ELSE /\ _running' = FALSE
            /\ _stop_event' = TRUE
            /\ cpc' = [cpc EXCEPT ![c] = "drain"]
    /\ cframe' = [cframe EXCEPT ![c] = IF ~_running THEN IdleCall
                                       ELSE [op |-> "stop"]]
    /\ UNCHANGED <<backend, _queue, _current_playback, _stats, interrupted, interrupt_due,
                   wpc, wframe, put_log, get_log,
                   speak_due, drained>>
    /\ held' = IF ~_running THEN held ELSE {}
    /\ ManagerUnchanged

\* clear_queue(): reaches its drain loop
clear_queue(c) ==
    /\ cpc[c] = "idle"
    /\ cpc' = [cpc EXCEPT ![c] = "drain"]
    /\ cframe' = [cframe EXCEPT ![c] = [op |-> "clear_queue"]]
    /\ UNCHANGED <<backend, _queue, _running, _stop_event, _current_playback,
                   _stats, interrupted, interrupt_due, wpc, wframe, put_log, get_log,
                   speak_due, drained>>
    /\ held' = {}
    /\ ManagerUnchanged

\* The drain loop of stop() and clear_queue():
\* `while not self._queue.empty(): self._queue.get_nowait()`, one item per step.
\* Once the queue is found empty clear_queue() returns, and stop() returns after
\* `self._playback_thread.join(timeout=2.0)`, the thread having ended or the two
\* seconds having passed (the join reads and writes no narrator state).
drain(c) ==
    /\ cpc[c] = "drain"
    /\ IF _queue # <<>>
       THEN /\ _queue' = heappop(_queue).heap
            /\ UNCHANGED <<cpc, cframe>>
       ELSE /\ _queue' = _queue
            /\ cpc' = [cpc EXCEPT ![c] = "idle"]
            /\ cframe' = [cframe EXCEPT ![c] = IdleCall]
    /\ drained' = IF _queue # <<>> THEN drained + 1 ELSE drained
    /\ UNCHANGED <<backend, _running, _stop_event, _current_playback, _stats,
                   interrupted, interrupt_due, wpc, wframe, put_log, get_log,
                   speak_due, held>>
    /\ ManagerUnchanged

\* _playback_loop: `while self._running and not self._stop_event.is_set()`
_playback_loop(w) ==
    /\ wpc[w] = "loop"
    /\ IF _running /\ ~_stop_event
       THEN /\ wpc' = [wpc EXCEPT ![w] = "get"]
            /\ wframe' = wframe
       ELSE /\ wpc' = [wpc EXCEPT ![w] = "none"]
            /\ wframe' = [wframe EXCEPT ![w] = NoWorker]
    /\ UNCHANGED <<backend, _queue, _running, _stop_event, _current_playback,
                   _stats, interrupted, interrupt_due, cpc, cframe, put_log, get_log,
                   speak_due, drained, held>>
    /\ ManagerUnchanged

\* _playback_loop: `item = self._queue.get(timeout=0.5)`; an item is taken, or
\* the queue stays empty for the half second and queue.Empty leads back to the
\* loop condition.
queue_get(w) ==
    /\ wpc[w] = "get"
    /\ IF _queue # <<>>
       THEN /\ _queue' = heappop(_queue).heap
            /\ get_log' = Dequeued(heappop(_queue).item)
            /\ wpc' = [wpc EXCEPT ![w] = "on_start"]
            /\ wframe' = [wframe EXCEPT ![w] = [item |-> Some(heappop(_queue).item),
                                                ok |-> TRUE,
                                                trace |-> <<>>]]
       ELSE /\ wpc' = [wpc EXCEPT ![w] = "loop"]
            /\ UNCHANGED <<_queue, get_log, wframe>>
    /\ UNCHANGED <<backend, _running, _stop_event, _current_playback, _stats,
                   interrupted, interrupt_due, cpc, cframe, put_log,
                   speak_due, drained, held>>
    /\ ManagerUnchanged

\* Mutant of AfterCallback: an exception of the callback ends the thread.
AfterCallback_uncaught(raised, next) == IF raised THEN "none" ELSE next

\* Where the playback thread goes on after a callback: its exception is caught
\* (`except Exception as e: print(...)`) in _play_item.
AfterCallback(raised, next) == next

\* _play_item: `if self.on_start: self.on_start(item.alert_id)`
on_start(w, raised) ==
    /\ wpc[w] = "on_start"
    /\ wpc' = [wpc EXCEPT ![w] = AfterCallback(raised, "render")]
    /\ wframe' = [wframe EXCEPT ![w].trace = Append(@, "on_start")]
    /\ UNCHANGED <<backend, _queue, _running, _stop_event, _current_playback,
                   _stats, interrupted, interrupt_due, cpc, cframe, put_log, get_log,
                   speak_due, drained, held>>
    /\ ManagerUnchanged

\* _play_item: the counter incremented after the backend's play call returned
\* (ok) or raised.
Counted(st, ok) ==
    IF ok THEN [st EXCEPT !.played = @ + 1] ELSE [st EXCEPT !.errors = @ + 1]

\* Which of played and errors differ between two values of _stats.
CounterChanged(before, after) ==
    IF after.played = before.played + 1 /\ after.errors = before.errors
    THEN "played"
    ELSE IF after.errors = before.errors + 1 /\ after.played = before.played
    THEN "errors"
    ELSE "other"

\* _play_item: the backend renders the text and returns or raises; played or
\* errors is incremented under _stats_lock.
render(w, ok) ==
    /\ wpc[w] = "render"
    /\ _stats' = Counted(_stats, ok)
    /\ wpc' = [wpc EXCEPT ![w] = "on_end"]
    /\ wframe' = [wframe EXCEPT ![w].ok = ok,
                                ![w].trace = @ \o <<"render",
                                                    CounterChanged(_stats, _stats')>>]
    /\ UNCHANGED <<backend, _queue, _running, _stop_event, _current_playback,
                   interrupted, interrupt_due, cpc, cframe, put_log, get_log,
                   speak_due, drained, held>>
    /\ ManagerUnchanged

\* _play_item: `if self.on_end: self.on_end(item.alert_id)`, then back to the
\* loop; the item is let go.
on_end(w, raised) ==
    /\ wpc[w] = "on_end"
    /\ wpc' = [wpc EXCEPT ![w] = AfterCallback(raised, "loop")]
    /\ wframe' = [wframe EXCEPT ![w] = NoWorker]
    /\ UNCHANGED <<backend, _queue, _running, _stop_event, _current_playback,
                   _stats, interrupted, interrupt_due, cpc, cframe, put_log, get_log,
                   speak_due, drained, held>>
    /\ ManagerUnchanged

NarratorNext ==
    \/ \E c \in Callers, text \in Texts, p \in SpeakPriorities, i \in BOOLEAN :
           speak(c, text, p, i)
    \/ \E c \in Callers : speak_queued(c)
    \/ \E c \in Callers : start(c)
    \/ \E c \in Callers : start_thread(c)
    \/ \E c \in Callers : stop(c)
    \/ \E c \in Callers : clear_queue(c)
    \/ \E c \in Callers : drain(c)
    \/ \E w \in Workers : _playback_loop(w)
    \/ \E w \in Workers : queue_get(w)
    \/ \E w \in Workers, raised \in BOOLEAN : on_start(w, raised)
    \/ \E w \in Workers, ok \in BOOLEAN : render(w, ok)
    \/ \E w \in Workers, raised \in BOOLEAN : on_end(w, raised)

NarratorInit ==
    /\ InitManager
    /\ ai_available = FALSE
    /\ \E b \in Backends : NewNarrator(b)

NarratorSpec == NarratorInit /\ [][NarratorNext]_vars

\* ------------------------------------------------------------------ properties
\* A step of thread t inside a call it has made.
Step(t) ==
    \/ update_conditions(t)
    \/ _generate_alert(t)
    \/ get_next_alert(t)
    \/ get_alert_history(t)

\* Thread t is inside a call and no step of it is possible.
Stuck(t) == pc[t] # "idle" /\ ~ENABLED Step(t)

\* Every call has returned or can go no further.
Settled == \A t \in Threads : pc[t] = "idle" \/ Stuck(t)

\* The kinds of the alerts in a list, in order.
Kinds(list) == [i \in 1..Len(list) |-> list[i].alert_type]

IsBucketChange(res) == res # None /\ Val(res).type = "bucket_change"

IsInternalEscalation(res) == res # None /\ Val(res).type = "internal_escalation"

\* C1: every update_conditions call terminates; in particular no thread ever waits
\* for the manager lock while holding it itself.
C1_NoWaitOnOwnLock ==
    \A t \in Threads : ~(pc[t] = "store_lock" /\ lock = Some(t))

\* C2: the first check_crossing call of a monitor returns no event; every later
\* call returns a bucket_change event exactly when the buckets of the previous and
\* the current reading differ, with direction rising exactly when the reading rose
\* and falling exactly when it fell.
C2_BucketChangeIff ==
    last_call.made =>
        LET prev == last_call.before.last_rainfall
            v == last_call.value
            res == last_call.result
        IN /\ prev = None => res = None
           /\ prev # None =>
                /\ IsBucketChange(res) <=> get_bucket(Val(prev)) # get_bucket(v)
                /\ IsBucketChange(res) =>
                     /\ Val(res).direction = "rising" <=> v > Val(prev)
                     /\ Val(res).direction = "falling" <=> v < Val(prev)
                     /\ Val(res).from_rainfall = Val(prev)
                     /\ Val(res).to_rainfall = v

\* C2 witness: a call has returned a falling bucket_change event.
C2_Witness ==
    /\ last_call.made
    /\ IsBucketChange(last_call.result)
    /\ Val(last_call.result).direction = "falling"
    /\ Val(last_call.before.last_rainfall) > last_call.value

\* C3: check_crossing returns an internal_escalation event (threshold 50, rising)
\* exactly when the previous and the current reading are both in the warning bucket
\* and previous < 50 <= current; never on a fall through 50 and never together with
\* a bucket change.
C3_EscalationIff ==
    last_call.made =>
        LET prev == last_call.before.last_rainfall
            v == last_call.value
            res == last_call.result
        IN /\ prev = None => ~IsInternalEscalation(res)
           /\ prev # None =>
                /\ IsInternalEscalation(res) <=>
                     /\ get_bucket(Val(prev)) = "warning"
                     /\ get_bucket(v) = "warning"
                     /\ Val(prev) < 50
                     /\ 50 <= v
                /\ IsInternalEscalation(res) =>
                     /\ Val(res).threshold_crossed = Some(50)
                     /\ Val(res).direction = "rising"
                /\ get_bucket(Val(prev)) # get_bucket(v) => ~IsInternalEscalation(res)
                /\ v < Val(prev) => ~IsInternalEscalation(res)

\* C3 witness: a call has returned an internal_escalation event.
C3_Witness ==
    /\ last_call.made
    /\ IsInternalEscalation(last_call.result)
    /\ Val(last_call.before.last_rainfall) < 50
    /\ last_call.value >= 50

\* C5: with min_alert_interval = 30 and cooldown_seconds = 60, two qualifying events
\* 10 seconds apart yield exactly one emitted alert and two qualifying events 31
\* seconds apart yield two; in both cases the first event, arriving with no cooldown
\* running, yields its alert.
C5_TwoQualifyingEvents ==
    Settled =>
        /\ Len(qualifying) = 1 => Len(alert_history) = 1
        /\ (Len(qualifying) = 2 /\ qualifying[2].time - qualifying[1].time = 10)
              => Len(alert_history) = 1
        /\ (Len(qualifying) = 2 /\ qualifying[2].time - qualifying[1].time = 31)
              => Len(alert_history) = 2

\* The global interval had elapsed and the event's own kind was off cooldown when
\* qualifying event e arrived.
GateOpenFor(e) ==
    /\ e.since_last = None \/ Val(e.since_last) >= min_alert_interval
    /\ e.since_kind = None \/ Val(e.since_kind) >= cooldown_seconds

\* C6: the cooldown of one kind never blocks another kind: an event of a kind other
\* than THRESHOLD_CROSSING that arrives with the global interval elapsed and its own
\* kind off cooldown passes the gate and is emitted, whether or not
\* THRESHOLD_CROSSING is inside its cooldown window.
C6_OtherKindEmitted ==
    Settled =>
        \A i \in 1..Len(qualifying) :
            (qualifying[i].alert_type # "threshold_crossing" /\ GateOpenFor(qualifying[i]))
               => /\ qualifying[i].passed
                  /\ \E j \in 1..Len(alert_history) :
                        /\ alert_history[j].alert_type = qualifying[i].alert_type
                        /\ alert_history[j].created_at >= qualifying[i].time

\* The trigger of the alert a call is generating: its crossing event, or none for
\* a location change.
TriggerKind(f) ==
    IF f.crossing_data = None THEN "location_change"
    ELSE IF Val(f.crossing_data).type = "internal_escalation" THEN "escalation"
    ELSE IF get_bucket(Val(f.crossing_data).to_rainfall) = "danger" THEN "severe_weather"
    ELSE "threshold_crossing"

\* C8: the kind of every alert is determined by its trigger: SEVERE_WEATHER exactly
\* for a bucket change into danger, THRESHOLD_CROSSING for every other bucket
\* change, ESCALATION for an internal escalation, LOCATION_CHANGE only for a call
\* whose location differs from the current one; one call makes at most one alert.
C8_KindByTrigger ==
    /\ \A t \in Threads :
          pc[t] = "store_lock" =>
              /\ frame[t].alert.alert_type = TriggerKind(frame[t])
              /\ frame[t].alert.alert_type = "location_change"
                    => frame[t].location_changed
              /\ frame[t].alert.alert_type # "location_change"
                    => /\ last_call.result = frame[t].crossing_data
                       /\ ~frame[t].location_changed
    /\ Len(alert_history) <= Len(qualifying)

\* C8 witness: a call has built a SEVERE_WEATHER alert for a rise into danger.
C8_Witness ==
    \E t \in Threads :
        /\ pc[t] = "store_lock"
        /\ frame[t].alert.alert_type = "severe_weather"
        /\ IsBucketChange(frame[t].crossing_data)
        /\ Val(frame[t].crossing_data).to_bucket = "danger"

\* The severity table: CRITICAL for SEVERE_WEATHER and for a crossing into danger,
\* HIGH for a THRESHOLD_CROSSING into warning, MEDIUM for ESCALATION, LOW otherwise.
SeverityTable(alert_type, crossing) ==
    IF alert_type = "severe_weather" THEN "critical"
    ELSE IF IsBucketChange(crossing) /\ Val(crossing).to_bucket = "danger" THEN "critical"
    ELSE IF alert_type = "threshold_crossing" /\ Val(crossing).to_bucket = "warning"
    THEN "high"
    ELSE IF alert_type = "escalation" THEN "medium"
    ELSE "low"

\* C9: on the AI path and on the legacy path the priority of every alert follows
\* the severity table.
C9_PriorityTable ==
    \A t \in Threads :
        pc[t] = "store_lock" =>
            frame[t].alert.priority =
                SeverityTable(frame[t].alert.alert_type, frame[t].crossing_data)

\* What the scenario is to have emitted once its first n readings were fed.
ScenarioKinds == <<"threshold_crossing", "escalation", "severe_weather",
                   "threshold_crossing", "threshold_crossing">>

\* C10: on a fresh manager the readings 10, 35, 55, 85, 60, 25 at "Zone A" take 10
\* as the baseline and emit, in order, THRESHOLD_CROSSING, ESCALATION,
\* SEVERE_WEATHER, THRESHOLD_CROSSING, THRESHOLD_CROSSING.
C10_ZoneAScenario ==
    (Settled /\ scenario.ok /\ scenario.n >= 1) =>
        /\ \A t \in Threads : frame[t].op = "update_conditions" => pc[t] = "uc_lock"
        /\ monitor.last_rainfall = Some(ScenarioFeed[scenario.n])
        /\ Kinds(alert_history) = SubSeq(ScenarioKinds, 1, scenario.n - 1)

\* Thread t is inside the call update_conditions(_, "Zone B") that moves the
\* manager from "Zone A" to "Zone B" while no global interval and no
\* LOCATION_CHANGE cooldown is running.
ChangesZoneAToZoneB(t) ==
    /\ frame[t].op = "update_conditions"
    /\ frame[t].location = "Zone B"
    /\ \/ pc[t] = "uc_lock" /\ current_location = "Zone A"
       \/ pc[t] # "uc_lock" /\ last_location = "Zone A"
    /\ last_alert_time = None
    /\ "location_change" \notin DOMAIN cooldowns

\* C11: a change of location from "Zone A" to "Zone B" with no cooldown active
\* goes through: the call is never left unable to take its next step, so that it
\* emits its one LOCATION_CHANGE alert and the next update finds a fresh monitor.
C11_ZoneAToZoneB ==
    \A t \in Threads : ChangesZoneAToZoneB(t) => ~Stuck(t)

\* C12: an update_conditions call whose location differs from the current one
\* leaves a freshly reset monitor that has not observed the call's rainfall, so
\* that the next reading, whatever it is, yields no crossing event. (Every such
\* call that is reachable passes the gate: the branch in which _can_alert rejects
\* LOCATION_CHANGE and check_crossing records the reading needs an alert emitted
\* before, and none ever is.)
C12_LocationChangeResets ==
    [][\A t \in Threads :
          (update_conditions(t) /\ frame[t].location # current_location) =>
              /\ monitor' = NewMonitor
              /\ \A r \in RainValues : check_crossing(monitor', r).result = None]_vars

\* C12 witness: a call that changed the location from a monitor that had a
\* baseline has run its body, and the monitor is fresh again.
C12_Witness ==
    \E t \in Threads :
        /\ pc[t] = "generate"
        /\ frame[t].location_changed
        /\ frame[t].rainfall > 0
        /\ last_call.made
        /\ monitor = NewMonitor

\* The priorities of the logged items, in order.
PrioritiesOf(log) == [i \in 1..Len(log) |-> log[i].priority]

\* The items 2, 0, 3, 0 were put before anything was taken, and all were taken.
PutThenDrained ==
    /\ PrioritiesOf(put_log) = <<2, 0, 3, 0>>
    /\ Len(get_log) = 4
    /\ get_log[1].puts = 4

\* C13: every item taken from the queue has the least priority value the queue
\* held at that moment; the items 2, 0, 3, 0, put while nothing is taken, come out
\* as 0, 0, 2, 3.
C13_MinimalFirst ==
    /\ \A i \in 1..Len(get_log) : get_log[i].priority = get_log[i].min
    /\ PutThenDrained => PrioritiesOf(get_log) = <<0, 0, 2, 3>>

\* C13 witness: 2, 0, 3, 0 were put and then all four taken.
C13_Witness == PutThenDrained

\* C14: items of equal priority are taken in the order they were put.
C14_FifoAmongEqual ==
    \A i, j \in 1..Len(get_log) :
        (i < j /\ get_log[i].priority = get_log[j].priority) =>
            get_log[i].alert_id < get_log[j].alert_id

\* The playback threads inside the timed `self._queue.get`.
Dequeuing == {w \in Workers : wpc[w] = "get"}

\* C15: whatever the interleaving of start() and stop() calls, at most one
\* playback thread is alive and taking items from the queue.
C15_OneWorker == Cardinality(Dequeuing) <= 1

\* C16: no item is dequeued by the worker while _running is false, that is once
\* stop() was requested.
C16_NoDequeueAfterStop ==
    \A i \in 1..Len(get_log) : get_log[i].running

\* The playback threads that hold an item for which neither played nor errors
\* was incremented yet.
Uncounted == {w \in Workers : wpc[w] \in {"on_start", "render"}}

\* C17: for each dequeued item the worker calls on_start, then renders, then
\* increments exactly one of played and errors (played exactly when the render did
\* not raise), then calls on_end; a raising backend or callback does not end the
\* thread, which never returns with an item in hand.
C17_PlayItemSequence ==
    /\ \A w \in Workers :
          /\ wpc[w] = "on_start" => wframe[w].item # None /\ wframe[w].trace = <<>>
          /\ wpc[w] = "render" => wframe[w].trace = <<"on_start">>
          /\ wpc[w] = "on_end" =>
                wframe[w].trace = <<"on_start", "render",
                                    IF wframe[w].ok THEN "played" ELSE "errors">>
          /\ wpc[w] \in {"none", "loop", "get"} => wframe[w] = NoWorker
    /\ _stats.played + _stats.errors = Len(get_log) - Cardinality(Uncounted)

\* C17 witness: a second item was dequeued after the render of the first had
\* raised, its render raised too, and on_end is about to be called for it.
C17_Witness ==
    \E w \in Workers :
        /\ wpc[w] = "on_end"
        /\ ~wframe[w].ok
        /\ Len(get_log) = 2
        /\ _stats.errors = 2

\* C18: played and errors count dequeued items only, so that items drained by
\* stop() or clear_queue() or still queued are never counted, and
\* played + errors <= queued in every state.
C18_CountersBounded ==
    /\ _stats.played + _stats.errors <= Len(get_log)
    /\ _stats.played + _stats.errors <= _stats.queued

\* C19: a speak(interrupt=True) call that finds the worker rendering another item
\* invokes on_interrupt with the id of the new alert.
C19_InterruptNotified == interrupted = interrupt_due

\* C20: speak() with a blank text or with backend NONE puts no item and counts
\* nothing; every other speak() puts exactly one item and increments queued by
\* one: the items ever put, and queued once the calls past their put have counted,
\* number the calls made with a text and a backend, and the queue holds the items
\* put less those dequeued and those drained.
C20_SpeakFrame ==
    /\ Len(put_log) = speak_due
    /\ _stats.queued + Cardinality({c \in Callers : cpc[c] = "speak_queued"})
           = speak_due
    /\ Len(_queue) = speak_due - Len(get_log) - drained
    /\ backend = "none" => speak_due = 0

\* C20 witness: two speak() calls with a text have returned, two items were put
\* and queued is two.
C20_Witness ==
    /\ \A c \in Callers : cpc[c] = "idle"
    /\ Len(put_log) = 2
    /\ _stats.queued = 2

\* C22: with the content generator unavailable, a call that generates an alert is
\* never left unable to go on: it stores the alert, built on the fallback path,
\* and returns it.
C22_FallbackReturns ==
    \A t \in Threads :
        (~ai_available /\ pc[t] \in {"generate", "store_lock"}) => ~Stuck(t)

\* C23: a get_next_alert call always comes back, with the oldest unread alert or
\* with None when no alert is unread: it is never left waiting for the lock with
\* nothing able to release it.
C23_NextAlertReturns ==
    \A t \in Threads : pc[t] = "gna_lock" => ~Stuck(t)

\* The most recent n alerts of the history, in emission order.
MostRecent(n) == SubSeq(alert_history, Len(alert_history) - n + 1, Len(alert_history))

\* C26: a get_alert_history(limit) call always comes back, and what it returns is
\* the most recent min(limit, number of recorded alerts) alerts in emission order.
C26_HistoryLimit ==
    \A t \in Threads :
        pc[t] = "gah_lock" =>
            /\ ~Stuck(t)
            /\ LET limit == frame[t].limit
                   n == IF limit < Len(alert_history) THEN limit
                        ELSE Len(alert_history)
               IN LastSlice(alert_history, limit) = MostRecent(n)

\* C27: every bucket_change event carries threshold_crossed = 30 when the reading
\* rose into warning or fell into normal and 80 when it rose into danger or fell
\* into warning, jumps across two buckets included; it is never None.
C27_ThresholdCrossed ==
    IsBucketChange(last_call.result) =>
        LET prev == Val(last_call.before.last_rainfall)
            v == last_call.value
            to == get_bucket(v)
            crossed == Val(last_call.result).threshold_crossed
        IN /\ crossed # None
           /\ (v > prev /\ to = "warning") => crossed = Some(30)
           /\ (v < prev /\ to = "normal") => crossed = Some(30)
           /\ (v > prev /\ to = "danger") => crossed = Some(80)
           /\ (v < prev /\ to = "warning") => crossed = Some(80)

\* C27 witness: a jump from normal straight into danger was reported with 80.
C27_Witness ==
    /\ IsBucketChange(last_call.result)
    /\ get_bucket(Val(last_call.before.last_rainfall)) = "normal"
    /\ get_bucket(last_call.value) = "danger"
    /\ Val(last_call.result).threshold_crossed = Some(80)

\* The ids of the items in a heap list or a log.
IdsOf(list) == {list[i].alert_id : i \in 1..Len(list)}

====
